---- MODULE Spec2Model ----
(***************************************************************************)
(* A model of script.js: the Wichmann-Hill generator, the matrix helpers   *)
(* (makeMatrix, copyMatrix, getXY, setXY, maxValueOf, mapMatrix,           *)
(* normalizeMatrix, blitMatrix, addMatrix), the blob kernel, and the       *)
(* animate / click callbacks.                                              *)
(*                                                                         *)
(* JavaScript numbers are modelled in fixed point: the number v / Scale    *)
(* is the record [k |-> "num", v |-> v]; products, quotients and roots are *)
(* rounded down to a multiple of 1 / Scale (binary64 rounds too, only      *)
(* finer).  NaN, undefined, the infinities and the holes of a sparse       *)
(* Array are values of their own.                                          *)
(***************************************************************************)
EXTENDS Integers, Sequences, FiniteSets, TLC

\* ------------------------------------------------------------------------
\* Numbers
\* ------------------------------------------------------------------------

\* Scale = 2^16, so that the seeds up to 30001 still fit TLC's 32-bit
\* integers; Root is its square root and Hex the base of the long division.
Hex == 4 * 4
Root == Hex * Hex
Scale == Root * Root

Num(v) == [k |-> "num", v |-> v]
Int2Num(n) == Num(n * Scale)
NaN == [k |-> "nan", v |-> 0]
Undefined == [k |-> "undefined", v |-> 0]
Hole == [k |-> "hole", v |-> 0]
Infinity(s) == [k |-> "inf", v |-> s]

Abs(n) == IF n < 0 THEN -n ELSE n
Sign(n) == IF n < 0 THEN -1 ELSE IF n > 0 THEN 1 ELSE 0
Min(a, b) == IF a < b THEN a ELSE b
Max(a, b) == IF a > b THEN a ELSE b

\* ToNumber of a value used as an operand: undefined converts to NaN.
IsNumeric(a) == a.k \in {"num", "inf"}

\* a > b of JavaScript: false as soon as one side is NaN or undefined.
Gt(a, b) ==
    /\ IsNumeric(a)
    /\ IsNumeric(b)
    /\ CASE a.k = "num" /\ b.k = "num" -> a.v > b.v
         [] a.k = "inf" /\ b.k = "num" -> a.v > 0
         [] a.k = "num" /\ b.k = "inf" -> b.v < 0
         [] OTHER -> a.v > b.v

\* a + b
Add(a, b) ==
    CASE ~IsNumeric(a) \/ ~IsNumeric(b) -> NaN
      [] a.k = "num" /\ b.k = "num" -> Num(a.v + b.v)
      [] a.k = "inf" /\ b.k = "num" -> a
      [] a.k = "num" /\ b.k = "inf" -> b
      [] OTHER -> IF a.v = b.v THEN a ELSE NaN

\* a - b
Sub(a, b) ==
    CASE ~IsNumeric(a) \/ ~IsNumeric(b) -> NaN
      [] a.k = "num" /\ b.k = "num" -> Num(a.v - b.v)
      [] a.k = "inf" /\ b.k = "num" -> a
      [] a.k = "num" /\ b.k = "inf" -> Infinity(-b.v)
      [] OTHER -> IF a.v # b.v THEN a ELSE NaN

\* |a| * |b| / Scale rounded down, computed in parts that stay in 32 bits.
MulAbs(a, b) ==
    LET ah == a \div Root
        al == a % Root
        bh == b \div Root
        bl == b % Root
    IN  ah * bh + (ah * bl + al * bh + (al * bl) \div Root) \div Root

\* a * b
Mul(a, b) ==
    CASE ~IsNumeric(a) \/ ~IsNumeric(b) -> NaN
      [] a.k = "num" /\ b.k = "num" ->
            Num(Sign(a.v) * Sign(b.v) * MulAbs(Abs(a.v), Abs(b.v)))
      [] OTHER ->
            IF Sign(a.v) * Sign(b.v) = 0 THEN NaN
            ELSE Infinity(Sign(a.v) * Sign(b.v))

\* |a| * Scale / |b| rounded down (b > 0), by long division, one
\* hexadecimal digit at a time.
RECURSIVE DivDigits(_, _, _, _)
DivDigits(q, r, b, n) ==
    IF n = 0 THEN q
    ELSE DivDigits(q * Hex + (r * Hex) \div b, (r * Hex) % b, b, n - 1)

DivAbs(a, b) == DivDigits(a \div b, a % b, b, 4)

\* a / b
Div(a, b) ==
    CASE ~IsNumeric(a) \/ ~IsNumeric(b) -> NaN
      [] a.k = "num" /\ b.k = "num" ->
            IF b.v = 0
            THEN IF a.v = 0 THEN NaN ELSE Infinity(Sign(a.v))
            ELSE Num(Sign(a.v) * Sign(b.v) * DivAbs(Abs(a.v), Abs(b.v)))
      [] a.k = "inf" /\ b.k = "num" ->
            Infinity(IF b.v < 0 THEN -a.v ELSE a.v)
      [] a.k = "num" /\ b.k = "inf" -> Num(0)
      [] OTHER -> NaN

\* a ** n for the literal or integer exponents the script uses.  Anything
\* to the power 0 is 1, NaN and undefined included.
RECURSIVE Pow(_, _)
Pow(a, n) ==
    IF n = 0 THEN Int2Num(1)
    ELSE IF n = 1 THEN Mul(a, Int2Num(1))
    ELSE Mul(a, Pow(a, n - 1))

\* The integer square root, by bisection.
RECURSIVE ISqrtIn(_, _, _)
ISqrtIn(n, lo, hi) ==
    IF lo >= hi THEN lo
    ELSE LET mid == (lo + hi + 1) \div 2
         IN  IF mid * mid <= n THEN ISqrtIn(n, mid, hi)
             ELSE ISqrtIn(n, lo, mid - 1)

ISqrt(n) == ISqrtIn(n, 0, Min(n, 46340))

\* Math.sqrt(a), rounded down to a multiple of 1 / Root.
Sqrt(a) ==
    CASE ~IsNumeric(a) -> NaN
      [] a.k = "inf" -> IF a.v > 0 THEN a ELSE NaN
      [] OTHER -> IF a.v < 0 THEN NaN ELSE Num(ISqrt(a.v) * Root)

\* a >= b and a <= b of JavaScript.
Ge(a, b) == IsNumeric(a) /\ IsNumeric(b) /\ ~Gt(b, a)
Le(a, b) == IsNumeric(a) /\ IsNumeric(b) /\ ~Gt(a, b)

\* Number.isInteger(x)
IsInteger(x) == x.k = "num" /\ x.v % Scale = 0

\* ------------------------------------------------------------------------
\* WichmannHillGenerator
\* ------------------------------------------------------------------------

M1 == 30269
M2 == 30307
M3 == 30323
A1 == 171
A2 == 172
A3 == 170
SeedMax == 30000

\* validateWichmannHillStateInteger without its last assert.
validateWithoutUpperBound(x) ==
    /\ IsInteger(x)
    /\ Ge(x, Int2Num(1))

\* validateWichmannHillStateInteger(x): TRUE when all three asserts pass
\* (x is returned), FALSE when one of them throws.
validateWichmannHillStateInteger(x) ==
    /\ IsInteger(x)
    /\ Ge(x, Int2Num(1))
    /\ Le(x, Int2Num(SeedMax))

\* The state of a generator that was never constructed.
NoGenerator == [s1 |-> 0, s2 |-> 0, s3 |-> 0]

\* new WichmannHillGenerator(state): the three components, which are
\* integers whenever the state went through With.
Constructor(state) ==
    [s1 |-> state[1].v \div Scale,
     s2 |-> state[2].v \div Scale,
     s3 |-> state[3].v \div Scale]

\* WichmannHillGenerator.with(state): state.map(validate...) throws on the
\* first component that fails, and then no generator is constructed.
With(state) ==
    IF \A n \in 1..3 : validateWichmannHillStateInteger(state[n])
    THEN [ok |-> TRUE, gen |-> Constructor(state)]
    ELSE [ok |-> FALSE, gen |-> NoGenerator]

\* next() with the first remainder left out.
NextStateWithoutModulo(g) ==
    [s1 |-> A1 * g.s1,
     s2 |-> (A2 * g.s2) % M2,
     s3 |-> (A3 * g.s3) % M3]

\* The state after next().
NextState(g) ==
    [s1 |-> (A1 * g.s1) % M1,
     s2 |-> (A2 * g.s2) % M2,
     s3 |-> (A3 * g.s3) % M3]

\* The value next() returns, (s1/M1 + s2/M2 + s3/M3) % 1.0 of the updated
\* state g, as the exact fraction (a + (b + c/M3)/M2)/M1 with 0 <= a < M1,
\* 0 <= b < M2, 0 <= c < M3 (the float is this fraction, rounded).
NextValue(g) ==
    LET a2 == (g.s2 * M1) \div M2
        b2 == (g.s2 * M1) % M2
        a3 == (g.s3 * M1) \div M3
        r3 == (g.s3 * M1) % M3
        b3 == (r3 * M2) \div M3
        c3 == (r3 * M2) % M3
        b  == b2 + b3
    IN  [a |-> (g.s1 + a2 + a3 + b \div M2) % M1, b |-> b % M2, c |-> c3]

\* next(): the new state and the returned value.
next(g) == [gen |-> NextState(g), value |-> NextValue(NextState(g))]

\* (u * n) | 0 for a value u of next() and a non-negative integer n.
ScaleTrunc(u, n) ==
    (n * u.a + (n * u.b + (n * u.c) \div M3) \div M2) \div M1

\* ------------------------------------------------------------------------
\* Matrices: a JavaScript Array with the properties width and height
\* ------------------------------------------------------------------------

\* An Array is its elements 0 .. length-1 (cells[n + 1] is element n; an
\* element never assigned is a Hole) and the properties that assignments
\* to negative indices create (neg, keyed by the index; no part of length).
NoProps == [n \in {} |-> NaN]

Holes(n) == [j \in 1..n |-> Hole]

\* array[idx]
ArrayGet(array, idx) ==
    IF idx < 0
    THEN IF idx \in DOMAIN array.neg THEN array.neg[idx] ELSE Undefined
    ELSE IF idx < Len(array.cells) /\ array.cells[idx + 1] # Hole
         THEN array.cells[idx + 1]
         ELSE Undefined

\* array[idx] = value: an index at or past length grows the array.
ArraySet(array, idx, value) ==
    IF idx < 0
    THEN [array EXCEPT !.neg =
            [n \in DOMAIN array.neg \cup {idx} |->
                IF n = idx THEN value ELSE array.neg[n]]]
    ELSE IF idx < Len(array.cells)
         THEN [array EXCEPT !.cells[idx + 1] = value]
         ELSE [array EXCEPT !.cells =
                 array.cells \o Holes(idx - Len(array.cells)) \o <<value>>]

\* new Array(width * height) throws a RangeError for a negative length.
makeMatrixThrows(width, height) == width * height < 0

makeMatrix(width, height, initialValue) ==
    [width  |-> width,
     height |-> height,
     cells  |-> [n \in 1..(width * height) |-> initialValue],
     neg    |-> NoProps]

\* slice() copies the elements, holes included, and none of the other
\* properties.
copyMatrix(matrix) ==
    [width  |-> matrix.width,
     height |-> matrix.height,
     cells  |-> matrix.cells,
     neg    |-> NoProps]

getXY(matrix, x, y) == ArrayGet(matrix, y * matrix.height + x)

setXY(matrix, x, y, value) == ArraySet(matrix, y * matrix.height + x, value)

\* The elements reduce() visits: holes are skipped.
Present(array) == SelectSeq(array.cells, LAMBDA c : c # Hole)

\* reduce() without an initial value throws a TypeError when it visits no
\* element.
maxValueOfThrows(array) == Present(array) = <<>>

\* The callback of the reduce() in maxValueOf.
Larger(x, y) == IF Gt(x, y) THEN x ELSE y

\* The left fold of Larger over elems[lo .. hi], from acc: the first half
\* of the range, then the element after it, then the rest (the order of
\* reduce(); halving the range keeps the nesting shallow).
RECURSIVE Reduce(_, _, _, _)
Reduce(acc, elems, lo, hi) ==
    IF lo > hi THEN acc
    ELSE LET mid  == (lo + hi) \div 2
             left == Reduce(acc, elems, lo, mid - 1)
         IN  IF Gt(left, elems[mid])
             THEN Reduce(left, elems, mid + 1, hi)
             ELSE Reduce(elems[mid], elems, mid + 1, hi)

maxValueOf(array) ==
    Reduce(Present(array)[1], Present(array), 2, Len(Present(array)))

\* The callbacks the source passes to mapMatrix, as values: the name of
\* the arrow function and the variable it closes over.
Fn(name, arg) == [name |-> name, arg |-> arg]

BlobCenter == 8

\* The literals 1.1 and 0.1.
OnePointOne == Num(Scale + Scale \div 10)
OneTenth == Num(Scale \div 10)

\* The callback of the inner mapMatrix that builds the blob.
blobFn(v, x, y) ==
    LET cap  == Sqrt(Add(Pow(Int2Num(BlobCenter), 2), Pow(Int2Num(BlobCenter), 2)))
        xOff == Int2Num(x - BlobCenter)
        yOff == Int2Num(y - BlobCenter)
    IN  Pow(Sub(Int2Num(1),
                Mul(Div(Sqrt(Add(Pow(xOff, 2), Pow(yOff, 2))), cap),
                    OnePointOne)),
            2)

\* fn(v, x, y) for each callback: those of the script, and three more for
\* the calls of mapMatrix checked on their own.
Apply(fn, v, x, y) ==
    CASE fn.name = "blob" -> blobFn(v, x, y)
      [] fn.name = "divide" -> Div(v, fn.arg)
      [] fn.name = "times" -> Mul(v, fn.arg)
      [] fn.name = "power" -> Pow(v, fn.arg)
      [] fn.name = "identity" -> v
      [] fn.name = "double" -> Mul(v, Int2Num(2))
      [] OTHER -> Add(v, Int2Num(x + 10 * y))

mapMatrix(matrix, fn) ==
    LET RECURSIVE loopY(_, _, _)
        loopY(newMatrix, x, y) ==
            IF y >= newMatrix.height THEN newMatrix
            ELSE loopY(setXY(newMatrix, x, y, Apply(fn, getXY(matrix, x, y), x, y)),
                       x, y + 1)
        RECURSIVE loopX(_, _)
        loopX(newMatrix, x) ==
            IF x >= newMatrix.width THEN newMatrix
            ELSE loopX(loopY(newMatrix, x, 0), x + 1)
    IN  loopX(copyMatrix(matrix), 0)

normalizeMatrix(matrix) ==
    LET max == maxValueOf(matrix)
    IN  mapMatrix(matrix, Fn("divide", max))

\* blitMatrix and addMatrix return nothing; the model returns the two
\* argument objects as the call leaves them, r.src and r.dst.
\* One pass of the inner loop body of blitMatrix:
blitCell(matrixSrc, matrixDst, offsetX, offsetY, x, y) ==
    IF x + offsetX >= matrixDst.width \/ y + offsetY >= matrixDst.height
    THEN [src |-> matrixSrc, dst |-> matrixDst]
    ELSE [src |-> matrixSrc,
          dst |-> setXY(matrixDst, x + offsetX, y + offsetY,
                        getXY(matrixSrc, x, y))]

RECURSIVE blitLoopY(_, _, _, _, _)
blitLoopY(r, offsetX, offsetY, x, y) ==
    IF y >= r.src.height THEN r
    ELSE blitLoopY(blitCell(r.src, r.dst, offsetX, offsetY, x, y),
                   offsetX, offsetY, x, y + 1)

RECURSIVE blitLoopX(_, _, _, _)
blitLoopX(r, offsetX, offsetY, x) ==
    IF x >= r.src.width THEN r
    ELSE blitLoopX(blitLoopY(r, offsetX, offsetY, x, 0), offsetX, offsetY, x + 1)

blitMatrix(matrixSrc, matrixDst, offsetX, offsetY) ==
    blitLoopX([src |-> matrixSrc, dst |-> matrixDst], offsetX, offsetY, 0)

\* addCell with setXY called on the source matrix.
addCellIntoSource(matrixSrc, matrixDst, offsetX, offsetY, x, y) ==
    IF x + offsetX >= matrixDst.width \/ y + offsetY >= matrixDst.height
    THEN [src |-> matrixSrc, dst |-> matrixDst]
    ELSE LET oldValue == getXY(matrixDst, x + offsetX, y + offsetY)
             newValue == getXY(matrixSrc, x, y)
         IN  [src |-> setXY(matrixSrc, x + offsetX, y + offsetY,
                            Add(oldValue, newValue)),
              dst |-> matrixDst]

\* addCell with the two lower-bound checks the code does not make.
addCellClippedBelow(matrixSrc, matrixDst, offsetX, offsetY, x, y) ==
    IF \/ x + offsetX >= matrixDst.width \/ y + offsetY >= matrixDst.height
       \/ x + offsetX < 0 \/ y + offsetY < 0
    THEN [src |-> matrixSrc, dst |-> matrixDst]
    ELSE LET oldValue == getXY(matrixDst, x + offsetX, y + offsetY)
             newValue == getXY(matrixSrc, x, y)
         IN  [src |-> matrixSrc,
              dst |-> setXY(matrixDst, x + offsetX, y + offsetY,
                            Add(oldValue, newValue))]

\* One pass of the inner loop body of addMatrix.
addCell(matrixSrc, matrixDst, offsetX, offsetY, x, y) ==
    IF x + offsetX >= matrixDst.width \/ y + offsetY >= matrixDst.height
    THEN [src |-> matrixSrc, dst |-> matrixDst]
    ELSE LET oldValue == getXY(matrixDst, x + offsetX, y + offsetY)
             newValue == getXY(matrixSrc, x, y)
         IN  [src |-> matrixSrc,
              dst |-> setXY(matrixDst, x + offsetX, y + offsetY,
                            Add(oldValue, newValue))]

RECURSIVE addLoopY(_, _, _, _, _)
addLoopY(r, offsetX, offsetY, x, y) ==
    IF y >= r.src.height THEN r
    ELSE addLoopY(addCell(r.src, r.dst, offsetX, offsetY, x, y),
                  offsetX, offsetY, x, y + 1)

RECURSIVE addLoopX(_, _, _, _)
addLoopX(r, offsetX, offsetY, x) ==
    IF x >= r.src.width THEN r
    ELSE addLoopX(addLoopY(r, offsetX, offsetY, x, 0), offsetX, offsetY, x + 1)

addMatrix(matrixSrc, matrixDst, offsetX, offsetY) ==
    addLoopX([src |-> matrixSrc, dst |-> matrixDst], offsetX, offsetY, 0)

\* drawMatrix(matrix): the gray level written for each of the
\* width * height pixels (a Uint8ClampedArray element: NaN becomes 0, the
\* rest is rounded and clamped to 0 .. 255); elements of the matrix past
\* the pixel buffer are dropped.
ToUint8Clamped(a) ==
    CASE ~IsNumeric(a) -> 0
      [] a.k = "inf" -> IF a.v > 0 THEN 255 ELSE 0
      [] OTHER -> Max(0, Min(255, (2 * a.v + Scale) \div (2 * Scale)))

drawMatrix(matrix) ==
    [n \in 1..Max(0, matrix.width * matrix.height) |->
        IF n <= Len(matrix.cells)
        THEN ToUint8Clamped(Mul(ArrayGet(matrix, n - 1), Int2Num(255)))
        ELSE 0]

\* ------------------------------------------------------------------------
\* The script: blob, matrix, rng
\* ------------------------------------------------------------------------

BlobSize == 17
StampOffsetX == 16
StampOffsetY == 8
Seed == 100

\* const blob
Blob ==
    mapMatrix(
        normalizeMatrix(mapMatrix(makeMatrix(BlobSize, BlobSize, Int2Num(0)),
                                  Fn("blob", NaN))),
        Fn("times", OneTenth))

\* The output surface (canvas.width, canvas.height) and the ranges of the
\* three sliders read at the top of animate.
CanvasWidth == 18
CanvasHeight == 18
MaxVelocity == 3
MaxFrames == 2
Contrasts == {1, 2}
AttenuationInputs == {Num(0), Num(Scale \div 2)}

\* The arguments of the library calls checked on their own.
MaxDim == 3
MaxOffset == 2
MaxDraws == 6
Fns == {Fn("identity", NaN), Fn("double", NaN), Fn("plusXY", NaN)}
InitialValues == {Int2Num(0), Int2Num(1)}
SeedValues ==
    {Int2Num(0), Int2Num(1), Int2Num(177), Int2Num(SeedMax),
     Int2Num(SeedMax + 1), Num(Scale + Scale \div 2), NaN, Undefined}

\* A width x height matrix whose element n is n + 1, as makeMatrix and
\* setXY (or plain element assignments) build it.
Ramp(width, height) ==
    [makeMatrix(width, height, Int2Num(0))
        EXCEPT !.cells = [n \in 1..(width * height) |-> Int2Num(n)]]

EmptyMatrix == makeMatrix(0, 0, Int2Num(0))

\* The record of the last library call (arguments as passed).
NoCall ==
    [op |-> "none", src |-> EmptyMatrix, dst |-> EmptyMatrix,
     offsetX |-> 0, offsetY |-> 0, width |-> 0, height |-> 0,
     value |-> NaN, fn |-> Fn("none", NaN), threw |-> FALSE]

NoFrame == [contrast |-> 0, velocity |-> 0, attenuation |-> NaN, i |-> 0]

VARIABLES
    top,      \* where the top level of the script (or of a test) stands
    pc,       \* where the running animate callback stands; "idle": none runs
    blob,     \* const blob; the source matrix of a library call
    built,    \* blob as line 128 built it (as the test passed it)
    matrix,   \* let matrix; the destination matrix of a library call
    rng,      \* the generator's s1, s2, s3
    frame,    \* the locals of animate: contrast, velocity, attenuation, i
    pending,  \* animation frames requested and not yet run
    canvas,   \* the gray levels last put on the canvas
    frames,   \* how many times animate was entered
    drawn,    \* the matrix the canvas was last computed from
    clickPc,  \* pc when the click handler last ran
    last,     \* the last library call
    seed,     \* the argument of WichmannHillGenerator.with
    draws,    \* how many times next() was called on its own
    ret       \* the value next() last returned

vars ==
    <<top, pc, blob, built, matrix, rng, frame, pending, canvas, frames,
      drawn, clickPc, last, seed, draws, ret>>

NoValue == [a |-> 0, b |-> 0, c |-> 0]

\* ------------------------------------------------------------------------
\* The script, lines 128 - 174
\* ------------------------------------------------------------------------

\* The state when line 170 is about to call animate(): blob, matrix and
\* rng are constructed.
InitScript ==
    /\ top = "animate"
    /\ pc = "idle"
    /\ blob = Blob
    /\ built = blob
    /\ matrix = makeMatrix(CanvasWidth, CanvasHeight, Int2Num(0))
    /\ rng = With(<<Int2Num(Seed), Int2Num(Seed), Int2Num(Seed)>>).gen
    /\ frame = NoFrame
    /\ pending = 0
    /\ canvas = <<>>
    /\ frames = 0
    /\ drawn = EmptyMatrix
    /\ clickPc = "none"
    /\ last = NoCall
    /\ seed = <<Int2Num(Seed), Int2Num(Seed), Int2Num(Seed)>>
    /\ draws = 0
    /\ ret = NoValue

\* animate(), lines 151 - 153: entered by the call of line 170 or, once the
\* script has run to its end, by a requested animation frame.
AnimateEnter ==
    /\ pc = "idle"
    /\ frames < MaxFrames
    /\ \/ top = "animate" /\ UNCHANGED pending
       \/ top = "done" /\ pending > 0 /\ pending' = pending - 1
    /\ \E contrast \in Contrasts, velocity \in 0..MaxVelocity,
          input \in AttenuationInputs :
            frame' = [contrast |-> contrast,
                      velocity |-> velocity,
                      attenuation |->
                          Sub(Int2Num(1), Pow(Sub(Int2Num(1), input), 8)),
                      i |-> 0]
    /\ pc' = "stamp"
    /\ frames' = frames + 1
    /\ last' = NoCall
    /\ UNCHANGED <<top, blob, matrix, rng, canvas, drawn, clickPc, built, seed, draws, ret>>

\* nextBlob(_ => rng.next()): two draws, then addMatrix.
nextBlob(g, src, dst) ==
    LET first  == next(g)
        second == next(first.gen)
        x == ScaleTrunc(first.value, dst.width)
        y == ScaleTrunc(second.value, dst.height)
        r == addMatrix(src, dst, x - StampOffsetX, y - StampOffsetY)
    IN  [gen |-> second.gen, src |-> r.src, dst |-> r.dst,
         offsetX |-> x - StampOffsetX, offsetY |-> y - StampOffsetY]

\* One pass of the loop of lines 155 - 158.
Stamp ==
    /\ pc = "stamp"
    /\ frame.i < frame.velocity
    /\ LET r == nextBlob(rng, blob, matrix)
       IN  /\ rng' = r.gen
           /\ blob' = r.src
           /\ matrix' = r.dst
           /\ last' = [NoCall EXCEPT !.op = "addMatrix", !.src = blob,
                                     !.dst = matrix, !.offsetX = r.offsetX,
                                     !.offsetY = r.offsetY]
    /\ frame' = [frame EXCEPT !.i = frame.i + 1]
    /\ UNCHANGED <<top, pc, pending, canvas, frames, drawn, clickPc, built, seed, draws, ret>>

\* The argument of drawMatrix in lines 159 - 161, drawn.
Output(m, contrast) ==
    drawMatrix(mapMatrix(normalizeMatrix(m), Fn("power", contrast)))

\* Draw with lines 163 - 165 moved before lines 159 - 161: the canvas is
\* computed from the decayed matrix.
DrawDecayed ==
    /\ pc = "stamp"
    /\ frame.i >= frame.velocity
    /\ canvas' = Output(mapMatrix(matrix, Fn("times", frame.attenuation)),
                        frame.contrast)
    /\ drawn' = matrix
    /\ pc' = "decay"
    /\ last' = NoCall
    /\ UNCHANGED <<top, blob, matrix, rng, frame, pending, frames, clickPc, built, seed, draws, ret>>

\* Lines 159 - 161, once the loop is over.  A TypeError of maxValueOf ends
\* the callback, and the script if line 170 made the call.
Draw ==
    /\ pc = "stamp"
    /\ frame.i >= frame.velocity
    /\ IF maxValueOfThrows(matrix)
       THEN /\ pc' = "idle"
            /\ top' = IF top = "animate" THEN "aborted" ELSE top
            /\ UNCHANGED <<canvas, drawn>>
       ELSE /\ canvas' = Output(matrix, frame.contrast)
            /\ drawn' = matrix
            /\ pc' = "decay"
            /\ UNCHANGED top
    /\ last' = NoCall
    /\ UNCHANGED <<blob, matrix, rng, frame, pending, frames, clickPc, built, seed, draws, ret>>

\* Lines 163 - 165.
Decay ==
    /\ pc = "decay"
    /\ matrix' = mapMatrix(matrix, Fn("times", frame.attenuation))
    /\ pc' = "request"
    /\ UNCHANGED <<top, blob, rng, frame, pending, canvas, frames, drawn,
                   clickPc, last, built, seed, draws, ret>>

\* Line 167, and the return of animate; the first call returns to line 172.
RequestFrame ==
    /\ pc = "request"
    /\ pending' = pending + 1
    /\ pc' = "idle"
    /\ top' = IF top = "animate" THEN "listen" ELSE top
    /\ UNCHANGED <<blob, matrix, rng, frame, canvas, frames, drawn, clickPc,
                   last, built, seed, draws, ret>>

\* Line 172: the click listener is added, and the script ends.
AddListener ==
    /\ top = "listen"
    /\ pc = "idle"
    /\ top' = "done"
    /\ UNCHANGED <<pc, blob, matrix, rng, frame, pending, canvas, frames,
                   drawn, clickPc, last, built, seed, draws, ret>>

\* Line 173, the click handler: a task of its own, run when no other
\* callback is running.  A TypeError of maxValueOf leaves matrix as it is.
Click ==
    /\ top = "done"
    /\ pc = "idle"
    /\ matrix' = IF maxValueOfThrows(matrix) THEN matrix
                 ELSE normalizeMatrix(matrix)
    /\ clickPc' = pc
    /\ last' = NoCall
    /\ UNCHANGED <<top, pc, blob, rng, frame, pending, canvas, frames, drawn,
                   built, seed, draws, ret>>

\* ------------------------------------------------------------------------
\* The matrix functions, each called once on arguments of its own
\* ------------------------------------------------------------------------

Dims == 1..MaxDim
Offsets == (0 - MaxOffset)..MaxOffset

InitCall ==
    /\ top = "call"
    /\ pc = "idle"
    /\ \E w \in Dims, h \in Dims : blob = Ramp(w, h)
    /\ built = blob
    /\ \E w \in Dims, h \in Dims :
          matrix \in {Ramp(w, h), makeMatrix(w, h, Int2Num(0))}
    /\ rng = NoGenerator
    /\ frame = NoFrame
    /\ pending = 0
    /\ canvas = <<>>
    /\ frames = 0
    /\ drawn = EmptyMatrix
    /\ clickPc = "none"
    /\ last = NoCall
    /\ seed = <<NaN, NaN, NaN>>
    /\ draws = 0
    /\ ret = NoValue

Returned ==
    /\ top' = "returned"
    /\ UNCHANGED <<pc, rng, frame, pending, canvas, frames, drawn, clickPc,
                   built, seed, draws, ret>>

\* matrix = makeMatrix(width, height, value)
CallMakeMatrix ==
    /\ top = "call"
    /\ \E width \in (-1)..MaxDim, height \in (-1)..MaxDim, value \in InitialValues :
          /\ last' = [NoCall EXCEPT !.op = "makeMatrix", !.width = width,
                                    !.height = height, !.value = value,
                                    !.threw = makeMatrixThrows(width, height)]
          /\ matrix' = IF makeMatrixThrows(width, height) THEN matrix
                       ELSE makeMatrix(width, height, value)
    /\ UNCHANGED blob
    /\ Returned

\* matrix = mapMatrix(matrix, fn)
CallMapMatrix ==
    /\ top = "call"
    /\ \E fn \in Fns :
          /\ last' = [NoCall EXCEPT !.op = "mapMatrix", !.dst = matrix, !.fn = fn]
          /\ matrix' = mapMatrix(matrix, fn)
    /\ UNCHANGED blob
    /\ Returned

\* matrix = normalizeMatrix(matrix)
CallNormalizeMatrix ==
    /\ top = "call"
    /\ last' = [NoCall EXCEPT !.op = "normalizeMatrix", !.dst = matrix,
                              !.threw = maxValueOfThrows(matrix)]
    /\ matrix' = IF maxValueOfThrows(matrix) THEN matrix
                 ELSE normalizeMatrix(matrix)
    /\ UNCHANGED blob
    /\ Returned

\* blitMatrix(blob, matrix, offsetX, offsetY)
CallBlitMatrix ==
    /\ top = "call"
    /\ \E offsetX \in Offsets, offsetY \in Offsets :
          LET r == blitMatrix(blob, matrix, offsetX, offsetY)
          IN  /\ last' = [NoCall EXCEPT !.op = "blitMatrix", !.src = blob,
                                        !.dst = matrix, !.offsetX = offsetX,
                                        !.offsetY = offsetY]
              /\ blob' = r.src
              /\ matrix' = r.dst
    /\ Returned

\* addMatrix(blob, matrix, offsetX, offsetY)
CallAddMatrix ==
    /\ top = "call"
    /\ \E offsetX \in Offsets, offsetY \in Offsets :
          LET r == addMatrix(blob, matrix, offsetX, offsetY)
          IN  /\ last' = [NoCall EXCEPT !.op = "addMatrix", !.src = blob,
                                        !.dst = matrix, !.offsetX = offsetX,
                                        !.offsetY = offsetY]
              /\ blob' = r.src
              /\ matrix' = r.dst
    /\ Returned

Init == InitScript \/ InitCall

Next ==
    \/ AnimateEnter
    \/ Stamp
    \/ Draw
    \/ Decay
    \/ RequestFrame
    \/ AddListener
    \/ Click
    \/ CallMakeMatrix
    \/ CallMapMatrix
    \/ CallNormalizeMatrix
    \/ CallBlitMatrix
    \/ CallAddMatrix

Spec == Init /\ [][Next]_vars

\* ------------------------------------------------------------------------
\* The generator on its own: with(seed), then next() again and again
\* ------------------------------------------------------------------------

InitGenerator ==
    /\ top = "with"
    /\ pc = "idle"
    /\ seed \in SeedValues \X SeedValues \X SeedValues
    /\ rng = NoGenerator
    /\ blob = EmptyMatrix
    /\ built = blob
    /\ matrix = EmptyMatrix
    /\ frame = NoFrame
    /\ pending = 0
    /\ canvas = <<>>
    /\ frames = 0
    /\ drawn = EmptyMatrix
    /\ clickPc = "none"
    /\ last = NoCall
    /\ draws = 0
    /\ ret = NoValue

\* rng = WichmannHillGenerator.with(seed); an Error ends the script.
Construct ==
    /\ top = "with"
    /\ top' = IF With(seed).ok THEN "ready" ELSE "thrown"
    /\ rng' = With(seed).gen
    /\ UNCHANGED <<pc, blob, matrix, frame, pending, canvas, frames, drawn,
                   clickPc, last, built, seed, draws, ret>>

\* rng.next()
CallNext ==
    /\ top = "ready"
    /\ draws < MaxDraws
    /\ rng' = next(rng).gen
    /\ ret' = next(rng).value
    /\ draws' = draws + 1
    /\ UNCHANGED <<top, pc, blob, matrix, frame, pending, canvas, frames,
                   drawn, clickPc, last, built, seed>>

NextGenerator == Construct \/ CallNext

SpecGenerator == InitGenerator /\ [][NextGenerator]_vars

\* ------------------------------------------------------------------------
\* Properties of the generator (under SpecGenerator)
\* ------------------------------------------------------------------------

\* An integer in [1, 30000].
SeedOk(x) ==
    /\ x.k = "num"
    /\ x.v % Scale = 0
    /\ x.v \div Scale \in 1..SeedMax

\* C1, as stated: after any number of draws s1, s2 and s3 are integers in
\* [1, 30000].
C1_StateStaysInSeedRange ==
    top = "ready" =>
        /\ rng.s1 \in 1..SeedMax
        /\ rng.s2 \in 1..SeedMax
        /\ rng.s3 \in 1..SeedMax

\* C1, amended: after any number of draws each component is a positive
\* integer below its modulus: s1 in [1, 30268], s2 in [1, 30306], s3 in
\* [1, 30322].
C1_StateStaysBelowModuli ==
    top = "ready" =>
        /\ rng.s1 \in 1..(M1 - 1)
        /\ rng.s2 \in 1..(M2 - 1)
        /\ rng.s3 \in 1..(M3 - 1)

\* A draw has left s1 above 30000.
C1_Witness == top = "ready" /\ draws > 0 /\ rng.s1 > SeedMax

\* C6: construction fails, leaving no generator and no draw, exactly when a
\* seed component is not an integer in [1, 30000]; when it succeeds the
\* state is the seed.
C6_ConstructionFailsIffSeedInvalid ==
    /\ top = "thrown" =>
          /\ \E n \in 1..3 : ~SeedOk(seed[n])
          /\ rng = NoGenerator
          /\ draws = 0
    /\ top = "ready" => \A n \in 1..3 : SeedOk(seed[n])
    /\ top = "ready" /\ draws = 0 =>
          /\ rng.s1 * Scale = seed[1].v
          /\ rng.s2 * Scale = seed[2].v
          /\ rng.s3 * Scale = seed[3].v

\* Construction has failed on a seed whose third component alone is bad.
C6_Witness ==
    /\ top = "thrown"
    /\ SeedOk(seed[1])
    /\ SeedOk(seed[2])
    /\ seed[3] = Int2Num(SeedMax + 1)

\* ------------------------------------------------------------------------
\* Properties of the matrices and of the script (under Spec)
\* ------------------------------------------------------------------------

ScriptTops == {"animate", "listen", "done", "aborted"}

Positive(m) == m.width > 0 /\ m.height > 0

Coords(m) == (0..(m.width - 1)) \X (0..(m.height - 1))

\* C2: every grid of positive width and height has width * height
\* elements, and a call of mapMatrix, normalizeMatrix, blitMatrix or
\* addMatrix leaves the dimensions of the grid it returns or writes as
\* they were.
C2_LengthIsWidthTimesHeight ==
    /\ \A m \in {matrix, blob} :
          Positive(m) => Len(m.cells) = m.width * m.height
    /\ last.op \in {"mapMatrix", "normalizeMatrix", "blitMatrix", "addMatrix"} =>
          /\ matrix.width = last.dst.width
          /\ matrix.height = last.dst.height

\* The source cell (x, y) passes the two checks of blitMatrix / addMatrix.
Passes(src, dst, offsetX, offsetY, x, y) ==
    /\ x \in 0..(src.width - 1)
    /\ y \in 0..(src.height - 1)
    /\ x + offsetX < dst.width
    /\ y + offsetY < dst.height

\* C3: a call with non-negative offsets that push the source past the
\* destination's width or height writes no element outside the
\* destination's width * height elements; every destination cell (dx, dy)
\* under a source cell has that cell's value added (addMatrix) or copied
\* (blitMatrix), and every other destination cell is unchanged.
C3_ClipsOnTheHighSide ==
    ( /\ last.op \in {"addMatrix", "blitMatrix"}
      /\ last.offsetX >= 0
      /\ last.offsetY >= 0
      /\ \/ last.offsetX + last.src.width > last.dst.width
         \/ last.offsetY + last.src.height > last.dst.height )
    =>
    /\ Len(matrix.cells) = last.dst.width * last.dst.height
    /\ matrix.neg = last.dst.neg
    /\ \A c \in Coords(last.dst) :
          LET x == c[1] - last.offsetX
              y == c[2] - last.offsetY
          IN  getXY(matrix, c[1], c[2]) =
                IF x \in 0..(last.src.width - 1) /\ y \in 0..(last.src.height - 1)
                THEN IF last.op = "addMatrix"
                     THEN Add(getXY(last.dst, c[1], c[2]), getXY(last.src, x, y))
                     ELSE getXY(last.src, x, y)
                ELSE getXY(last.dst, c[1], c[2])

\* C4: normalizeMatrix of a grid with a positive cell divides every cell
\* by the grid's maximum, and the maximum of the result is 1.
C4_NormalizedMaxIsOne ==
    ( /\ last.op = "normalizeMatrix"
      /\ ~last.threw
      /\ \E n \in 1..Len(last.dst.cells) : Gt(last.dst.cells[n], Int2Num(0)) )
    =>
    /\ maxValueOf(matrix) = Int2Num(1)
    /\ Len(matrix.cells) = Len(last.dst.cells)
    /\ \A n \in 1..Len(last.dst.cells) :
          matrix.cells[n] = Div(last.dst.cells[n], maxValueOf(last.dst))

\* C5: mapMatrix(g, fn) returns a grid of g's dimensions and length whose
\* cell (x, y) is fn(g's cell (x, y), x, y); with the identity it returns
\* g's elements.
C5_MapAppliesFnToEveryCell ==
    last.op = "mapMatrix" =>
        /\ matrix.width = last.dst.width
        /\ matrix.height = last.dst.height
        /\ Len(matrix.cells) = Len(last.dst.cells)
        /\ \A c \in Coords(last.dst) :
              getXY(matrix, c[1], c[2]) =
                  Apply(last.fn, getXY(last.dst, c[1], c[2]), c[1], c[2])
        /\ last.fn.name = "identity" => matrix.cells = last.dst.cells

\* C7: makeMatrix fails when width <= 0 or height <= 0 and otherwise
\* returns width * height cells equal to the initial value; no grid has a
\* non-positive dimension.
C7_NonPositiveDimensionsFail ==
    /\ last.op = "makeMatrix" =>
          IF last.width <= 0 \/ last.height <= 0
          THEN last.threw
          ELSE /\ ~last.threw
               /\ matrix.width = last.width
               /\ matrix.height = last.height
               /\ matrix.cells = [n \in 1..(last.width * last.height) |-> last.value]
    /\ Positive(matrix)
    /\ Positive(blob)

\* C8: in the script the blob is what line 128 made it, after any frames,
\* stamps and clicks; and a call of addMatrix leaves its source argument
\* as it was.
C8_KernelIsReadOnly ==
    /\ top \in ScriptTops => blob = built
    /\ last.op = "addMatrix" => blob = last.src

\* A stamp of the second frame, after a click.
C8_Witness ==
    /\ top = "done"
    /\ frames = 2
    /\ clickPc = "idle"
    /\ last.op = "addMatrix"

\* C9: at most one animate callback is pending or running; a frame makes
\* all its stamps, then computes the canvas from the undecayed matrix,
\* then decays that matrix, and only then requests the next frame; the
\* click handler runs only while no frame is running.
C9_FramesDoNotOverlap ==
    /\ pending \in {0, 1}
    /\ pc # "idle" => pending = 0
    /\ top \in {"animate", "listen"} => clickPc = "none"
    /\ clickPc \in {"none", "idle"}
    /\ pc = "decay" =>
          /\ frame.i = frame.velocity
          /\ matrix = drawn
          /\ canvas = Output(drawn, frame.contrast)
    /\ pc = "request" =>
          /\ frame.i = frame.velocity
          /\ canvas = Output(drawn, frame.contrast)
          /\ matrix = mapMatrix(drawn, Fn("times", frame.attenuation))

\* The second frame, entered after a click, has stamped, drawn and decayed.
C9_Witness ==
    /\ pc = "request"
    /\ frames = 2
    /\ clickPc = "idle"
    /\ frame.velocity > 0

\* The element (or property) idx of the array was assigned.
Written(array, idx) ==
    IF idx < 0 THEN idx \in DOMAIN array.neg
    ELSE idx < Len(array.cells) /\ array.cells[idx + 1] # Hole

\* The source cells whose write lands on the same flat index as that of
\* (x, y): (x + k * height, y - k), in the order of the loops.
Writers(src, dst, offsetX, offsetY, x, y) ==
    {w \in {<<x + k * dst.height, y - k>> : k \in (0 - src.height)..src.height} :
        Passes(src, dst, offsetX, offsetY, w[1], w[2])}

RECURSIVE AddInOrder(_, _, _)
AddInOrder(acc, src, ws) ==
    IF ws = {} THEN acc
    ELSE LET w == CHOOSE w \in ws :
                    \A u \in ws : w[1] * src.height + w[2] <= u[1] * src.height + u[2]
         IN  AddInOrder(Add(acc, getXY(src, w[1], w[2])), src, ws \ {w})

LastWriter(src, ws) ==
    CHOOSE w \in ws :
        \A u \in ws : w[1] * src.height + w[2] >= u[1] * src.height + u[2]

\* What the call must leave at flat index idx, the target of (x, y).
Expected(op, src, dst, offsetX, offsetY, x, y, idx) ==
    LET ws == Writers(src, dst, offsetX, offsetY, x, y)
    IN  IF op = "addMatrix"
        THEN AddInOrder(ArrayGet(dst, idx), src, ws)
        ELSE getXY(src, LastWriter(src, ws)[1], LastWriter(src, ws)[2])

\* The flat indices of the window the stamp is meant for: the destination
\* cells (dx, dy) of the grid with offsetX <= dx < offsetX + src.width and
\* offsetY <= dy < offsetY + src.height.
Window(src, dst, offsetX, offsetY) ==
    {dy * dst.height + dx :
        dx \in Max(0, offsetX)..Min(dst.width - 1, offsetX + src.width - 1),
        dy \in Max(0, offsetY)..Min(dst.height - 1, offsetY + src.height - 1)}

\* C10: a source cell (x, y) that passes the two upper-bound checks with
\* x + offsetX < 0 or y + offsetY < 0 is written, at flat index
\* (y + offsetY) * dest.height + (x + offsetX); and a stamp of the script
\* at offset (x - 16, y - 8) with x < 16 changes a cell at the end of the
\* row above, outside the window it is meant for.
C10_NoLowerBoundCheck ==
    /\ last.op \in {"addMatrix", "blitMatrix"} =>
          \A c \in Coords(last.src) :
              LET dx  == c[1] + last.offsetX
                  dy  == c[2] + last.offsetY
                  idx == dy * last.dst.height + dx
              IN  ( /\ Passes(last.src, last.dst, last.offsetX, last.offsetY, c[1], c[2])
                    /\ (dx < 0 \/ dy < 0) )
                  =>
                  /\ Written(matrix, idx)
                  /\ ArrayGet(matrix, idx) =
                        Expected(last.op, last.src, last.dst, last.offsetX,
                                 last.offsetY, c[1], c[2], idx)
    /\ ( /\ top \in ScriptTops
         /\ last.op = "addMatrix"
         /\ last.offsetX < 0 )
       =>
       \E c \in Coords(last.src) :
           LET dx  == c[1] + last.offsetX
               dy  == c[2] + last.offsetY
               idx == dy * last.dst.height + dx
           IN  /\ Passes(last.src, last.dst, last.offsetX, last.offsetY, c[1], c[2])
               /\ dx < 0
               /\ dy >= 1
               /\ idx \in 0..(Len(last.dst.cells) - 1)
               /\ idx \notin Window(last.src, last.dst, last.offsetX, last.offsetY)
               /\ ArrayGet(matrix, idx) =
                     Add(ArrayGet(last.dst, idx), getXY(last.src, c[1], c[2]))
               /\ IsNumeric(ArrayGet(last.dst, idx)) =>
                     ArrayGet(matrix, idx) # ArrayGet(last.dst, idx)

\* A stamp of the script with x < 16 that also wrote at a negative flat
\* index.
C10_Witness ==
    /\ top \in ScriptTops
    /\ last.op = "addMatrix"
    /\ last.offsetX < 0
    /\ DOMAIN matrix.neg # {}

====
